---- MODULE Spec2Model ----
(***************************************************************************)
(* A model of contrail_persistence.py: the interactive driver (station,    *)
(* image time, observation time, proximity check, location, radiosonde     *)
(* paste, data processing, report) and the functions it calls.             *)
(***************************************************************************)
EXTENDS Integers, Sequences, FiniteSets, TLC

VARIABLES
    pc,               \* position of the script
    retries,          \* answers the timestamp prompt the script is at has rejected
                      \* (a saturating count; the script itself keeps none)
    nws_id_station,
    image_time_date,  \* last text typed at the image-time prompt
    img_dt,
    suggested_dt,
    suggested_z,
    suggested_time,
    obs_time_date,    \* last text typed at the observation-time prompt
    obs_dt,
    is_valid_time,
    image_location,
    lines,            \* the pasted radiosonde table
    df,
    rhi_results,
    max_rhi_row,
    out               \* the kinds of message printed so far by the time functions,
                      \* the proximity check, the data stage and the report

vars == <<pc, retries, nws_id_station, image_time_date, img_dt, suggested_dt,
          suggested_z, suggested_time, obs_time_date, obs_dt, is_valid_time,
          image_location, lines, df, rhi_results, max_rhi_row, out>>

-----------------------------------------------------------------------------
(* Bounds of the model.                                                    *)

\* Number of calendar years from which dates are drawn (2024, a leap year, first).
MaxYears == 2
\* Longest pasted table, in data rows.
MaxRows == 3
\* The retry counter saturates here; the prompts themselves never stop.
MaxRetries == 2

Years == 2024 .. (2023 + MaxYears)

-----------------------------------------------------------------------------
(* datetime: dates, ordinals, differences.                                 *)

\* A datetime value; None is the all-zero record (year 0 is no datetime year).
None == [year |-> 0, month |-> 0, day |-> 0, hour |-> 0, minute |-> 0]

datetime(y, m, d, h) == [year |-> y, month |-> m, day |-> d, hour |-> h, minute |-> 0]

IsLeap(y) == (y % 4 = 0) /\ ((y % 100 # 0) \/ (y % 400 = 0))

DAYS_IN_MONTH == <<31, 28, 31, 30, 31, 30, 31, 31, 30, 31, 30, 31>>

DaysInMonth(y, m) == IF m = 2 /\ IsLeap(y) THEN 29 ELSE DAYS_IN_MONTH[m]

DAYS_BEFORE_MONTH == <<0, 31, 59, 90, 120, 151, 181, 212, 243, 273, 304, 334>>

DaysBeforeMonth(y, m) == DAYS_BEFORE_MONTH[m] + (IF m > 2 /\ IsLeap(y) THEN 1 ELSE 0)

DaysBeforeYear(y) == (y - 1) * 365 + ((y - 1) \div 4) - ((y - 1) \div 100) + ((y - 1) \div 400)

\* date.toordinal(): 1 for 0001-01-01.
ToOrdinal(y, m, d) == DaysBeforeYear(y) + DaysBeforeMonth(y, m) + d

\* date.fromordinal(n), as a <<year, month, day>> triple.
FromOrdinal(n) ==
    LET n0   == n - 1
        n400 == n0 \div 146097
        r400 == n0 % 146097
        n100 == r400 \div 36524
        r100 == r400 % 36524
        n4   == r100 \div 1461
        r4   == r100 % 1461
        n1   == r4 \div 365
        r1   == r4 % 365
        year == n400 * 400 + 1 + n100 * 100 + n4 * 4 + n1
    IN  IF n1 = 4 \/ n100 = 4
        THEN <<year - 1, 12, 31>>
        ELSE LET leap  == (n1 = 3) /\ ((n4 # 24) \/ (n100 = 3))
                 m0    == (r1 + 50) \div 32
                 pre0  == DAYS_BEFORE_MONTH[m0] + (IF m0 > 2 /\ leap THEN 1 ELSE 0)
                 month == IF pre0 > r1 THEN m0 - 1 ELSE m0
                 pre   == IF pre0 > r1
                          THEN pre0 - (DAYS_IN_MONTH[month]
                                       + (IF month = 2 /\ leap THEN 1 ELSE 0))
                          ELSE pre0
             IN  <<year, month, r1 - pre + 1>>

\* Faulty variant: the day number plus one, with no roll-over.
AddOneDayNoRollOver(y, m, d) == <<y, m, d + 1>>

\* img_date + timedelta(days=1)
AddOneDay(y, m, d) == FromOrdinal(ToOrdinal(y, m, d) + 1)

\* A datetime as minutes since the start of 0001-01-01 (obs_dt - img_dt is a
\* difference of these).
TotalMinutes(dt) == ToOrdinal(dt.year, dt.month, dt.day) * 1440 + dt.hour * 60 + dt.minute

Abs(x) == IF x < 0 THEN -x ELSE x

-----------------------------------------------------------------------------
(* Typed text, strptime and strftime.                                      *)

MONTH_ABBR == <<"Jan", "Feb", "Mar", "Apr", "May", "Jun",
                "Jul", "Aug", "Sep", "Oct", "Nov", "Dec">>

\* A typed time: form "a" is 'HHZ DD Mon YYYY' (hh, dd, mon, yyyy), form "b" is
\* 'YYYY-MM-DD HH:MM' (yyyy, mm, dd, hh, mi), form "other" is any other text and
\* form "none" stands for no text typed yet.
TextA(hh, dd, mon, yyyy) ==
    [form |-> "a", yyyy |-> yyyy, mm |-> 0, mon |-> mon, dd |-> dd, hh |-> hh, mi |-> 0]

TextB(yyyy, mm, dd, hh, mi) ==
    [form |-> "b", yyyy |-> yyyy, mm |-> mm, mon |-> "", dd |-> dd, hh |-> hh, mi |-> mi]

OtherText == [form |-> "other", yyyy |-> 0, mm |-> 0, mon |-> "", dd |-> 0, hh |-> 0, mi |-> 0]

NoText == [form |-> "none", yyyy |-> 0, mm |-> 0, mon |-> "", dd |-> 0, hh |-> 0, mi |-> 0]

\* The directives strptime knows among those the two format strings use.
Directives == {"H", "d", "b", "Y", "m", "M"}

\* "%HZ %d %b %Y": the characters that follow each '%'.
FormatA == [form |-> "a", directives |-> <<"H", "d", "b", "Y">>]

\* "%Y-%-m-%d %H:%M": the characters that follow each '%' ('-' follows the second).
FormatB == [form |-> "b", directives |-> <<"Y", "-", "d", "H", "M">>]

Uses(format, c) == \E i \in DOMAIN format.directives : format.directives[i] = c

MonthNumber(mon) == CHOOSE m \in 1..12 : MONTH_ABBR[m] = mon

\* datetime.strptime(time_str, format): None stands for ValueError.
strptime(time_str, format) ==
    IF \E i \in DOMAIN format.directives : format.directives[i] \notin Directives
    THEN None                                   \* bad directive in the format
    ELSE IF time_str.form # format.form
    THEN None                                   \* the text does not match
    ELSE LET month == IF Uses(format, "b")
                      THEN (IF \E m \in 1..12 : MONTH_ABBR[m] = time_str.mon
                            THEN MonthNumber(time_str.mon) ELSE 0)
                      ELSE IF Uses(format, "m") THEN time_str.mm ELSE 1
             minute == IF Uses(format, "M") THEN time_str.mi ELSE 0
         IN  IF /\ time_str.yyyy \in 1..9999
                /\ month \in 1..12
                /\ time_str.dd \in 1..31
                /\ time_str.hh \in 0..23
                /\ minute \in 0..59
             THEN IF time_str.dd <= DaysInMonth(time_str.yyyy, month)
                  THEN [year |-> time_str.yyyy, month |-> month, day |-> time_str.dd,
                        hour |-> time_str.hh, minute |-> minute]
                  ELSE None                     \* day is out of range for month
             ELSE None

\* suggested_dt.strftime("%HZ %d %b %Y")
strftime(dt) == TextA(dt.hour, dt.day, MONTH_ABBR[dt.month], dt.year)

-----------------------------------------------------------------------------
(* Time functions of the script.                                           *)

\* Faulty variant: hour 6 still counted with the morning (<= for <).
suggest_closest_obs_time_Le(dt) ==
    IF dt.hour <= 6
    THEN [dt |-> datetime(dt.year, dt.month, dt.day, 0), z |-> "00Z"]
    ELSE IF dt.hour < 18
    THEN [dt |-> datetime(dt.year, dt.month, dt.day, 12), z |-> "12Z"]
    ELSE LET next_day == AddOneDay(dt.year, dt.month, dt.day)
         IN  [dt |-> datetime(next_day[1], next_day[2], next_day[3], 0), z |-> "00Z"]

suggest_closest_obs_time(dt) ==
    IF dt.hour < 6
    THEN [dt |-> datetime(dt.year, dt.month, dt.day, 0), z |-> "00Z"]
    ELSE IF dt.hour < 18
    THEN [dt |-> datetime(dt.year, dt.month, dt.day, 12), z |-> "12Z"]
    ELSE LET next_day == AddOneDay(dt.year, dt.month, dt.day)
         IN  [dt |-> datetime(next_day[1], next_day[2], next_day[3], 0), z |-> "00Z"]

\* The two strptime attempts of parse_time_input: format (a), then format (b).
ParseFormats(time_str) ==
    IF strptime(time_str, FormatA) # None
    THEN strptime(time_str, FormatA)
    ELSE strptime(time_str, FormatB)

\* Faulty variant: 12Z forgotten.
IsSynopticMidnightOnly(dt) == dt.hour = 0 /\ dt.minute <= 15

\* The condition of the synoptic check (the code tests its negation).
IsSynoptic(dt) == (dt.hour = 0 \/ dt.hour = 12) /\ dt.minute <= 15

\* What is printed with an error: the suggestion only when one was passed.
Suggestion(suggested) == IF suggested # NoText THEN {"suggested"} ELSE {}

\* Faulty variant: the allow_any_time flag read the wrong way round.
parse_time_input_FlagInverted(time_str, allow_any_time, suggested) ==
    LET dt == ParseFormats(time_str)
    IN  IF dt = None
        THEN [dt |-> None, prints |-> {"format_error"} \cup Suggestion(suggested)]
        ELSE IF allow_any_time /\ ~IsSynoptic(dt)
        THEN [dt |-> None, prints |-> {"synoptic_error"} \cup Suggestion(suggested)]
        ELSE [dt |-> dt, prints |-> {}]

\* parse_time_input: the datetime returned (None on failure) and what it prints.
\* The text itself is returned unchanged beside it.
parse_time_input(time_str, allow_any_time, suggested) ==
    LET dt == ParseFormats(time_str)
    IN  IF dt = None
        THEN [dt |-> None, prints |-> {"format_error"} \cup Suggestion(suggested)]
        ELSE IF ~allow_any_time /\ ~IsSynoptic(dt)
        THEN [dt |-> None, prints |-> {"synoptic_error"} \cup Suggestion(suggested)]
        ELSE [dt |-> dt, prints |-> {}]

\* Faulty variant: six hours exactly already warned about (>= for >).
check_time_proximity_Ge(obs, img) ==
    LET time_diff == Abs(TotalMinutes(obs) - TotalMinutes(img))
    IN  IF time_diff >= 360
        THEN [ok |-> FALSE, prints |-> {"warning", "proceeding"}]
        ELSE [ok |-> TRUE, prints |-> {}]

\* check_time_proximity: six hours are 360 minutes.
check_time_proximity(obs, img) ==
    LET time_diff == Abs(TotalMinutes(obs) - TotalMinutes(img))
    IN  IF time_diff > 360
        THEN [ok |-> FALSE, prints |-> {"warning", "proceeding"}]
        ELSE [ok |-> TRUE, prints |-> {}]

-----------------------------------------------------------------------------
(* Humidity.  The vapour pressures are kept as logarithms in fixed point:  *)
(* the value is ln(e / 6.112) in units of 1/10000, for whole degrees.  exp *)
(* is increasing, so the order and the equalities of RHi values are those  *)
(* of the logarithms.                                                      *)

\* ln(e_si / 6.112) = 22.46 T / (T + 272.62)
saturation_vapor_pressure_ice(T_c) == (2246 * T_c * 10000) \div (100 * T_c + 27262)

\* ln(e / 6.112) = 17.67 Td / (Td + 243.5)
saturation_vapor_pressure_water(Td_c) == (1767 * Td_c * 10000) \div (100 * Td_c + 24350)

\* ln(RHi / 100) = ln(e) - ln(e_si)
calculate_rhi(T_c, Td_c) ==
    saturation_vapor_pressure_water(Td_c) - saturation_vapor_pressure_ice(T_c)

\* rhi >= 100, i.e. ln(RHi / 100) >= 0
contrail_persistence(rhi) == rhi >= 0

-----------------------------------------------------------------------------
(* The pasted table and the data frame.                                    *)

\* A field of a data row: a number, or a token that is no number.
Num(v) == [ok |-> TRUE, v |-> v]

Malformed == [ok |-> FALSE, v |-> 0]

NoTable == [header |-> {}, rows |-> <<>>]

NoFrame == [columns |-> {}, rows |-> <<>>, RHi |-> <<>>]

\* df.rename(columns={'PRES': 'P', 'TEMP': 'T', 'DWPT': 'Td'})
Rename(c) == IF c = "PRES" THEN "P" ELSE IF c = "TEMP" THEN "T"
             ELSE IF c = "DWPT" THEN "Td" ELSE c

\* pd.read_csv of the pasted text, then the rename.  The RHi column comes later.
ReadFrame(table) ==
    [columns |-> {Rename(c) : c \in table.header},
     rows    |-> [i \in DOMAIN table.rows |->
                    [P |-> table.rows[i].PRES, T |-> table.rows[i].TEMP,
                     Td |-> table.rows[i].DWPT]],
     RHi     |-> <<>>]

\* read_csv gives a column a numeric dtype only when every field of it is a number.
NumericColumn(frame, c) == \A i \in DOMAIN frame.rows : frame.rows[i][c].ok

\* Series.between(200, 300): both ends included.
Between(p) == 200 <= p /\ p <= 300

RequiredColumns == {"P", "T", "Td"}

\* Faulty variant: the check of the band left out.
ProcessRaisesNoBandCheck(frame) ==
    \/ ~(RequiredColumns \subseteq frame.columns)
    \/ ~NumericColumn(frame, "P")

\* The try block: TRUE when an exception is raised in it (and caught).
ProcessRaises(frame) ==
    \/ ~(RequiredColumns \subseteq frame.columns)           \* ValueError, raised
    \/ ~NumericColumn(frame, "P")                           \* TypeError in between()
    \/ ~(\E i \in DOMAIN frame.rows : Between(frame.rows[i].P.v))  \* ValueError, raised

\* df.apply(calculate_rhi) is outside the try block: a text field in the TEMP or
\* DWPT column raises TypeError in the arithmetic.
ComputeRaises(frame) == ~NumericColumn(frame, "T") \/ ~NumericColumn(frame, "Td")

\* df['RHi'] = df.apply(...): one value per row of df.
WithRHi(frame) ==
    [frame EXCEPT !.columns = @ \cup {"RHi"},
                  !.RHi = [i \in DOMAIN frame.rows |->
                             calculate_rhi(frame.rows[i].T.v, frame.rows[i].Td.v)]]

\* df_flight: the positions of df whose pressure is in the band, in input order.
df_flight(frame) == {i \in DOMAIN frame.rows : Between(frame.rows[i].P.v)}

levels == <<200, 250, 300>>

NotFound == [found |-> FALSE, rhi |-> 0]

First(S) == CHOOSE i \in S : \A j \in S : i <= j

Last(S) == CHOOSE i \in S : \A j \in S : j <= i

\* Faulty variant: the last matching row (iloc[-1] for iloc[0]).
LevelRHiLast(frame, level) ==
    LET hits == {i \in df_flight(frame) : frame.rows[i].P.v = level}
    IN  IF hits # {}
        THEN [found |-> TRUE, rhi |-> frame.RHi[Last(hits)]]
        ELSE NotFound

\* df_flight.loc[df_flight['P'] == level, 'RHi'].iloc[0], or None
LevelRHi(frame, level) ==
    LET hits == {i \in df_flight(frame) : frame.rows[i].P.v = level}
    IN  IF hits # {}
        THEN [found |-> TRUE, rhi |-> frame.RHi[First(hits)]]
        ELSE NotFound

NoRow == [found |-> FALSE, P |-> 0, T |-> 0, Td |-> 0, RHi |-> 0]

\* Faulty variant: the maximum taken over df, not over df_flight.
IdxMaxAllRows(frame) ==
    First({i \in DOMAIN frame.rows : \A j \in DOMAIN frame.rows : frame.RHi[j] <= frame.RHi[i]})

\* df_flight['RHi'].idxmax(): the first position holding the greatest RHi.
IdxMax(frame) ==
    LET band == df_flight(frame)
    IN  First({i \in band : \A j \in band : frame.RHi[j] <= frame.RHi[i]})

\* max_rhi_row and the four values read from it; NoRow when df_flight is empty.
MaxRow(frame) ==
    IF df_flight(frame) # {}
    THEN LET i == IdxMax(frame)
         IN  [found |-> TRUE, P |-> frame.rows[i].P.v, T |-> frame.rows[i].T.v,
              Td |-> frame.rows[i].Td.v, RHi |-> frame.RHi[i]]
    ELSE NoRow

-----------------------------------------------------------------------------
(* What is typed at the prompts.                                           *)

\* A line of free text; a blank one has only spaces (s.strip() is empty).
FreeText == {<<>>, <<" ">>, <<"A">>}

IsBlank(s) == \A i \in DOMAIN s : s[i] = " "

TextDays == {1, 31}

TextMonths == {"Jan", "Dec"}

\* Texts of form (b), the examples of the banner and of the prompts among them.
TextsB == {TextB(2025, 4, 12, 0, 0), TextB(2025, 4, 12, 1, 0), TextB(2025, 4, 12, 3, 0),
           TextB(2025, 4, 12, 12, 15), TextB(2025, 4, 12, 12, 16), TextB(2025, 2, 30, 0, 0)}

\* Texts of form (a) with the given hours (24 is no hour), and one with no date.
TextsA(hours) ==
    {TextA(h, d, m, y) : h \in hours, d \in TextDays, m \in TextMonths, y \in Years}
    \cup {TextA(0, 31, "Feb", 2024)}

ImageTexts == TextsA({0, 5, 6, 12, 18, 23, 24}) \cup TextsB \cup {OtherText}

ObsTexts == TextsA({0, 3, 12, 24}) \cup TextsB \cup {OtherText}

FullHeader == {"PRES", "HGHT", "TEMP", "DWPT"}

DataRow(p, t, td) == [PRES |-> p, TEMP |-> t, DWPT |-> td]

\* The profile of the documentation, cut to the longest table of the model.
ExampleRows == <<DataRow(Num(300), Num(-40), Num(-45)),
                 DataRow(Num(250), Num(-50), Num(-52)),
                 DataRow(Num(200), Num(-55), Num(-58))>>

ExampleTables ==
    {[header |-> FullHeader, rows |-> SubSeq(ExampleRows, 1, n)] : n \in {1, 3}}
    \cup {[header |-> FullHeader \ {"DWPT"}, rows |-> SubSeq(ExampleRows, 1, 1)],
          [header |-> FullHeader, rows |-> <<DataRow(Num(500), Num(-20), Num(-25))>>],
          [header |-> FullHeader, rows |-> <<DataRow(Num(250), Malformed, Num(-52))>>],
          [header |-> FullHeader, rows |-> <<DataRow(Malformed, Num(-50), Num(-52))>>]}

SmallTables == {t \in ExampleTables : Len(t.rows) <= MaxRows}

Pressures == {199, 200, 250, 275, 300, 301}

Soundings == {<<-40, -45>>, <<-50, -52>>}

DataRows ==
    {DataRow(Num(p), Num(s[1]), Num(s[2])) : p \in Pressures, s \in Soundings}
    \cup {DataRow(Malformed, Num(-40), Num(-45)),
          DataRow(Num(250), Malformed, Num(-52)),
          DataRow(Num(250), Num(-50), Malformed)}

Tables ==
    {[header |-> FullHeader, rows |-> r] :
        r \in UNION {[1..n -> DataRows] : n \in 1..MaxRows}}
    \cup {[header |-> h, rows |-> SubSeq(ExampleRows, 1, 1)] : h \in SUBSET FullHeader}

-----------------------------------------------------------------------------
(* The script, one action per prompt or stage.                             *)

Bump(n) == IF n < MaxRetries THEN n + 1 ELSE n

NoResults == [l \in {levels[k] : k \in DOMAIN levels} |-> NotFound]

Init ==
    /\ pc = "station"
    /\ retries = 0
    /\ nws_id_station = <<>>
    /\ image_time_date = NoText
    /\ img_dt = None
    /\ suggested_dt = None
    /\ suggested_z = ""
    /\ suggested_time = NoText
    /\ obs_time_date = NoText
    /\ obs_dt = None
    /\ is_valid_time = TRUE
    /\ image_location = <<>>
    /\ lines = NoTable
    /\ df = NoFrame
    /\ rhi_results = NoResults
    /\ max_rhi_row = NoRow
    /\ out = {}

\* The station prompt and its loop on a blank answer.
Station ==
    /\ pc = "station"
    /\ \E s \in FreeText :
        /\ nws_id_station' = s
        /\ IF IsBlank(s)
           THEN pc' = "station"
           ELSE pc' = "image"
    /\ UNCHANGED <<retries, image_time_date, img_dt, suggested_dt, suggested_z,
                   suggested_time, obs_time_date, obs_dt, is_valid_time, image_location,
                   lines, df, rhi_results, max_rhi_row, out>>

\* The image-time prompt: parse_time_input with allow_any_time=True, looped while
\* it returns None.
ImagePrompt(texts) ==
    /\ pc = "image"
    /\ \E t \in texts :
        LET r == parse_time_input(t, TRUE, NoText)
        IN  /\ image_time_date' = t
            /\ img_dt' = r.dt
            /\ out' = out \cup r.prints
            /\ IF r.dt = None
               THEN retries' = Bump(retries) /\ pc' = "image"
               ELSE retries' = 0 /\ pc' = "suggest"
    /\ UNCHANGED <<nws_id_station, suggested_dt, suggested_z, suggested_time,
                   obs_time_date, obs_dt, is_valid_time, image_location, lines, df,
                   rhi_results, max_rhi_row>>

\* The suggestion and its text.
Suggest ==
    /\ pc = "suggest"
    /\ LET s == suggest_closest_obs_time(img_dt)
       IN  /\ suggested_dt' = s.dt
           /\ suggested_z' = s.z
           /\ suggested_time' = strftime(s.dt)
    /\ pc' = "obs"
    /\ UNCHANGED <<retries, nws_id_station, image_time_date, img_dt, obs_time_date,
                   obs_dt, is_valid_time, image_location, lines, df, rhi_results,
                   max_rhi_row, out>>

\* The observation-time prompt: parse_time_input with allow_any_time=False and the
\* suggestion, looped while it returns None.
ObsPrompt(texts) ==
    /\ pc = "obs"
    /\ \E t \in texts :
        LET r == parse_time_input(t, FALSE, suggested_time)
        IN  /\ obs_time_date' = t
            /\ obs_dt' = r.dt
            /\ out' = out \cup r.prints
            /\ IF r.dt = None
               THEN retries' = Bump(retries) /\ pc' = "obs"
               ELSE retries' = 0 /\ pc' = "proximity"
    /\ UNCHANGED <<nws_id_station, image_time_date, img_dt, suggested_dt, suggested_z,
                   suggested_time, is_valid_time, image_location, lines, df,
                   rhi_results, max_rhi_row>>

\* The proximity check and its warning; the script goes on either way.
Proximity ==
    /\ pc = "proximity"
    /\ LET r == check_time_proximity(obs_dt, img_dt)
       IN  /\ is_valid_time' = r.ok
           /\ out' = out \cup r.prints
    /\ pc' = "location"
    /\ UNCHANGED <<retries, nws_id_station, image_time_date, img_dt, suggested_dt,
                   suggested_z, suggested_time, obs_time_date, obs_dt, image_location,
                   lines, df, rhi_results, max_rhi_row>>

\* The location prompt and its loop on a blank answer.
Location ==
    /\ pc = "location"
    /\ \E s \in FreeText :
        /\ image_location' = s
        /\ IF IsBlank(s)
           THEN pc' = "location"
           ELSE pc' = "paste"
    /\ UNCHANGED <<retries, nws_id_station, image_time_date, img_dt, suggested_dt,
                   suggested_z, suggested_time, obs_time_date, obs_dt, is_valid_time,
                   lines, df, rhi_results, max_rhi_row, out>>

\* The paste loop: a blank line before any data line is refused and the loop goes
\* on; data lines and then a blank line end it.
Paste(tables) ==
    /\ pc = "paste"
    /\ \/ UNCHANGED <<pc, lines>>
       \/ \E t \in tables :
            /\ lines' = t
            /\ pc' = "process"
    /\ UNCHANGED <<retries, nws_id_station, image_time_date, img_dt, suggested_dt,
                   suggested_z, suggested_time, obs_time_date, obs_dt, is_valid_time,
                   image_location, df, rhi_results, max_rhi_row, out>>

\* The try block: read, rename, the two checks; any exception prints the error
\* and exits.
Process ==
    /\ pc = "process"
    /\ df' = ReadFrame(lines)
    /\ IF ProcessRaises(ReadFrame(lines))
       THEN out' = out \cup {"data_error"} /\ pc' = "exited"
       ELSE out' = out /\ pc' = "compute"
    /\ UNCHANGED <<retries, nws_id_station, image_time_date, img_dt, suggested_dt,
                   suggested_z, suggested_time, obs_time_date, obs_dt, is_valid_time,
                   image_location, lines, rhi_results, max_rhi_row>>

\* The RHi column, the three levels and the maximum; an exception here is caught
\* by nothing and ends the script with a traceback.
Compute ==
    /\ pc = "compute"
    /\ IF ComputeRaises(df)
       THEN /\ out' = out \cup {"traceback"}
            /\ pc' = "crashed"
            /\ UNCHANGED <<df, rhi_results, max_rhi_row>>
       ELSE /\ df' = WithRHi(df)
            /\ rhi_results' = [l \in DOMAIN NoResults |-> LevelRHi(WithRHi(df), l)]
            /\ max_rhi_row' = MaxRow(WithRHi(df))
            /\ out' = out
            /\ pc' = "report"
    /\ UNCHANGED <<retries, nws_id_station, image_time_date, img_dt, suggested_dt,
                   suggested_z, suggested_time, obs_time_date, obs_dt, is_valid_time,
                   image_location, lines>>

\* The report.
Report ==
    /\ pc = "report"
    /\ out' = out \cup {"report"}
    /\ pc' = "done"
    /\ UNCHANGED <<retries, nws_id_station, image_time_date, img_dt, suggested_dt,
                   suggested_z, suggested_time, obs_time_date, obs_dt, is_valid_time,
                   image_location, lines, df, rhi_results, max_rhi_row>>

ImageStep == ImagePrompt(ImageTexts)

ObsStep == ObsPrompt(ObsTexts)

PasteStep == Paste(SmallTables)

Next ==
    \/ Station
    \/ ImageStep
    \/ Suggest
    \/ ObsStep
    \/ Proximity
    \/ Location
    \/ PasteStep
    \/ Process
    \/ Compute
    \/ Report

Spec == Init /\ [][Next]_vars

-----------------------------------------------------------------------------
(* The data stage alone: the script at the paste prompt after the answers  *)
(* '05Z 31 Dec 2024' and '00Z 31 Dec 2024', and every table of the model.  *)

DataImageText == TextA(5, 31, "Dec", 2024)

DataObsText == TextA(0, 31, "Dec", 2024)

InitData ==
    /\ pc = "paste"
    /\ retries = 0
    /\ nws_id_station = <<"A">>
    /\ image_time_date = DataImageText
    /\ img_dt = parse_time_input(DataImageText, TRUE, NoText).dt
    /\ suggested_dt = suggest_closest_obs_time(img_dt).dt
    /\ suggested_z = suggest_closest_obs_time(img_dt).z
    /\ suggested_time = strftime(suggested_dt)
    /\ obs_time_date = DataObsText
    /\ obs_dt = parse_time_input(DataObsText, FALSE, suggested_time).dt
    /\ is_valid_time = check_time_proximity(obs_dt, img_dt).ok
    /\ image_location = <<"A">>
    /\ lines = NoTable
    /\ df = NoFrame
    /\ rhi_results = NoResults
    /\ max_rhi_row = NoRow
    /\ out = {}

PasteAny == Paste(Tables)

NextData ==
    \/ PasteAny
    \/ Process
    \/ Compute
    \/ Report

SpecData == InitData /\ [][NextData]_vars

-----------------------------------------------------------------------------
(* The time functions alone: the script after an image time of any date,   *)
(* hour and minute of the model, answered with the suggested time.         *)

FnDays == {1, 2, 15, 27, 28, 29, 30, 31}

FnMinutes == {0, 1, 15, 16, 59}

FnDatetimes ==
    {[year |-> y, month |-> m, day |-> d, hour |-> h, minute |-> mi] :
        y \in Years, m \in 1..12, d \in FnDays, h \in 0..23, mi \in FnMinutes}

InitFn ==
    /\ pc = "suggest"
    /\ retries = 0
    /\ nws_id_station = <<"A">>
    /\ img_dt \in {dt \in FnDatetimes : dt.day <= DaysInMonth(dt.year, dt.month)}
    /\ image_time_date = TextB(img_dt.year, img_dt.month, img_dt.day, img_dt.hour,
                               img_dt.minute)
    /\ suggested_dt = None
    /\ suggested_z = ""
    /\ suggested_time = NoText
    /\ obs_time_date = NoText
    /\ obs_dt = None
    /\ is_valid_time = TRUE
    /\ image_location = <<>>
    /\ lines = NoTable
    /\ df = NoFrame
    /\ rhi_results = NoResults
    /\ max_rhi_row = NoRow
    /\ out = {}

ObsSuggested == ObsPrompt({suggested_time})

NextFn ==
    \/ Suggest
    \/ ObsSuggested
    \/ Proximity

SpecFn == InitFn /\ [][NextFn]_vars

-----------------------------------------------------------------------------
(* Notions the properties are stated with.                                 *)

\* A text of one of the two documented forms that names a date and a time.
WellFormed(t) ==
    /\ t.form \in {"a", "b"}
    /\ t.yyyy \in 1..9999
    /\ t.hh \in 0..23
    /\ t.mi \in 0..59
    /\ LET m == IF t.form = "a"
                THEN (IF \E k \in 1..12 : MONTH_ABBR[k] = t.mon
                      THEN CHOOSE k \in 1..12 : MONTH_ABBR[k] = t.mon ELSE 0)
                ELSE t.mm
       IN  m \in 1..12 /\ t.dd \in 1..DaysInMonth(t.yyyy, m)

\* The timestamp a well-formed text names.
Named(t) ==
    [year |-> t.yyyy,
     month |-> IF t.form = "a" THEN CHOOSE k \in 1..12 : MONTH_ABBR[k] = t.mon ELSE t.mm,
     day |-> t.dd, hour |-> t.hh, minute |-> t.mi]

\* The script is past the observation-time prompt.
PastObs == pc \in {"proximity", "location", "paste", "process", "compute", "report",
                   "done", "exited", "crashed"}

\* The script is past the proximity check.
PastProximity == PastObs /\ pc # "proximity"

\* The data stage has ended, one way or another.
DataEnded == pc \in {"report", "done", "exited", "crashed"}

\* The calendar date after y-m-d: the next day of the month, else the first of the
\* next month, else the first of January of the next year.
NextCalendarDate(y, m, d) ==
    IF d < DaysInMonth(y, m) THEN <<y, m, d + 1>>
    ELSE IF m < 12 THEN <<y, m + 1, 1>>
    ELSE <<y + 1, 1, 1>>

\* The distance in minutes between two timestamps.
Distance(a, b) == Abs(TotalMinutes(a) - TotalMinutes(b))

-----------------------------------------------------------------------------
(* C1: every well-formed text of form (a) and of form (b) yields its       *)
(* timestamp; in particular '2025-04-12 00:00' typed at the observation    *)
(* prompt is accepted with hour 0 and minute 0.  The script contradicts    *)
(* this: no text of form (b) is ever accepted.                             *)
C1_BothFormatsAccepted ==
    /\ (image_time_date # NoText /\ WellFormed(image_time_date))
          => img_dt = Named(image_time_date)
    /\ (obs_time_date = TextB(2025, 4, 12, 0, 0))
          => (obs_dt = Named(obs_time_date) /\ PastObs)

-----------------------------------------------------------------------------
(* C2: for a text that parses, the observation prompt returns the          *)
(* timestamp exactly when its hour is 0 or 12 and its minute at most 15,   *)
(* and a failure otherwise; the image prompt returns the timestamp of any  *)
(* text that parses.                                                       *)
C2_SynopticValidation ==
    /\ (obs_time_date # NoText /\ ParseFormats(obs_time_date) # None) =>
          LET dt == ParseFormats(obs_time_date)
          IN  IF dt.hour \in {0, 12} /\ dt.minute <= 15
              THEN obs_dt = dt /\ PastObs
              ELSE obs_dt = None /\ pc = "obs" /\ "synoptic_error" \in out
    /\ (image_time_date # NoText /\ ParseFormats(image_time_date) # None) =>
          (img_dt = ParseFormats(image_time_date) /\ pc # "image")

\* An image time of hour 23 was accepted and an observation time of hour 3 refused.
C2_Witness ==
    /\ pc = "obs"
    /\ img_dt # None /\ img_dt.hour = 23
    /\ obs_time_date.form = "a" /\ obs_time_date.hh = 3
    /\ obs_dt = None
    /\ "synoptic_error" \in out

-----------------------------------------------------------------------------
(* C3: the suggestion is the image date at 00:00 ("00Z") for an image hour *)
(* below 6, the image date at 12:00 ("12Z") for an hour in 6..17, and the  *)
(* next calendar date at 00:00 ("00Z") for an hour of 18 or more, whatever *)
(* the image minute.                                                       *)
C3_SuggestRule ==
    (pc # "suggest") =>
        LET next == NextCalendarDate(img_dt.year, img_dt.month, img_dt.day)
        IN  /\ img_dt.hour < 6 =>
                /\ suggested_dt = [img_dt EXCEPT !.hour = 0, !.minute = 0]
                /\ suggested_z = "00Z"
            /\ (6 <= img_dt.hour /\ img_dt.hour < 18) =>
                /\ suggested_dt = [img_dt EXCEPT !.hour = 12, !.minute = 0]
                /\ suggested_z = "12Z"
            /\ img_dt.hour >= 18 =>
                /\ suggested_dt = [year |-> next[1], month |-> next[2], day |-> next[3],
                                   hour |-> 0, minute |-> 0]
                /\ suggested_z = "00Z"

\* An evening image time on a 31 December, suggested the first of January.
C3_Witness ==
    /\ pc # "suggest"
    /\ img_dt.month = 12 /\ img_dt.day = 31 /\ img_dt.hour = 18 /\ img_dt.minute = 59
    /\ suggested_dt.year = img_dt.year + 1
    /\ suggested_dt.month = 1 /\ suggested_dt.day = 1

-----------------------------------------------------------------------------
(* C4: the proximity check is not-ok, with the warning printed, exactly    *)
(* when observation and image time are more than 6 hours apart (6 hours    *)
(* exactly are ok), and after it the script is at the location prompt in   *)
(* either case, with the times it had.                                     *)
C4_ProximityAdvisory ==
    /\ [](PastProximity =>
            /\ is_valid_time <=> (Distance(obs_dt, img_dt) <= 360)
            /\ ("warning" \in out) <=> ~is_valid_time)
    /\ [][(pc = "proximity") =>
            (pc' = "location" /\ UNCHANGED <<obs_dt, img_dt, obs_time_date,
                                             image_time_date>>)]_vars
    /\ [][("warning" \in out') => (pc' \notin {"image", "suggest", "obs"})]_vars

\* A run that printed the warning and then the report.
C4_Witness ==
    /\ pc = "done"
    /\ "warning" \in out /\ "report" \in out
    /\ ~is_valid_time

-----------------------------------------------------------------------------
(* C5: a table without one of PRES, TEMP, DWPT, or without a row whose     *)
(* pressure is in [200, 300], ends the run with the error message and      *)
(* without the report, and the paste is not asked for again.               *)
LacksColumn(t) == ~({"PRES", "TEMP", "DWPT"} \subseteq t.header)

NoBandRow(t) ==
    ~(\E i \in DOMAIN t.rows :
        t.rows[i].PRES.ok /\ 200 <= t.rows[i].PRES.v /\ t.rows[i].PRES.v <= 300)

C5_FatalDataErrors ==
    /\ []((lines # NoTable /\ pc # "process" /\ (LacksColumn(lines) \/ NoBandRow(lines)))
            => (pc = "exited" /\ "data_error" \in out /\ "report" \notin out))
    /\ [][(pc = "exited") => (pc' = "exited" /\ out' = out)]_vars

\* A run ended for a missing DWPT column.
C5_Witness ==
    /\ pc = "exited"
    /\ "DWPT" \notin lines.header /\ {"PRES", "TEMP"} \subseteq lines.header
    /\ out = {"data_error"}

-----------------------------------------------------------------------------
(* C6: a table with all three columns and a field that is no number in one *)
(* of them ends the run with the error message, without the report and     *)
(* without an uncaught exception.  The script contradicts this for the     *)
(* TEMP and DWPT columns.                                                  *)
HasMalformed(t) ==
    \E i \in DOMAIN t.rows :
        ~t.rows[i].PRES.ok \/ ~t.rows[i].TEMP.ok \/ ~t.rows[i].DWPT.ok

C6_MalformedHandled ==
    (DataEnded /\ ~LacksColumn(lines) /\ HasMalformed(lines))
        => (pc = "exited" /\ "data_error" \in out /\ "report" \notin out
            /\ "traceback" \notin out)

-----------------------------------------------------------------------------
(* C7: a rejected image or observation time leaves the script at the same  *)
(* prompt, which can always be answered again; the script leaves a         *)
(* timestamp prompt only with an accepted value; hence past the            *)
(* observation prompt the observation time has hour 0 or 12 and minute at  *)
(* most 15.                                                                *)
C7_RepromptUntilValid ==
    /\ [][(pc = "image") =>
            \/ (img_dt' = None /\ pc' = "image")
            \/ (img_dt' # None /\ pc' = "suggest")]_vars
    /\ [][(pc = "obs") =>
            \/ (obs_dt' = None /\ pc' = "obs")
            \/ (obs_dt' # None /\ pc' = "proximity")]_vars
    /\ []((pc = "image" => ENABLED ImageStep) /\ (pc = "obs" => ENABLED ObsStep))
    /\ [](PastObs =>
            /\ obs_dt # None
            /\ obs_dt.hour \in {0, 12}
            /\ obs_dt.minute <= 15)

\* The observation prompt issued again after MaxRetries rejected answers.
C7_Witness ==
    /\ pc = "obs"
    /\ retries = MaxRetries
    /\ obs_dt = None
    /\ {"format_error", "synoptic_error"} \subseteq out

-----------------------------------------------------------------------------
(* C8: for each of the levels 200, 250 and 300 the result is the RHi of    *)
(* the first row, in input order, whose pressure is that level, and "not   *)
(* found" when no row has that pressure.                                   *)
RowRHi(t, i) == calculate_rhi(t.rows[i].TEMP.v, t.rows[i].DWPT.v)

C8_ExactLevelLookup ==
    (pc \in {"report", "done"}) =>
        \A level \in {200, 250, 300} :
            LET hits == {i \in DOMAIN lines.rows : lines.rows[i].PRES.v = level}
            IN  IF hits = {}
                THEN ~rhi_results[level].found
                ELSE /\ rhi_results[level].found
                     /\ \E i \in hits :
                          /\ \A j \in hits : i <= j
                          /\ rhi_results[level].rhi = RowRHi(lines, i)

\* Two rows at 250 hPa with different RHi, a row at 275 hPa, none at 200 or 300.
C8_Witness ==
    /\ pc = "done"
    /\ Len(lines.rows) = 3
    /\ lines.rows[1].PRES.v = 250 /\ lines.rows[2].PRES.v = 275
    /\ lines.rows[3].PRES.v = 250
    /\ RowRHi(lines, 1) # RowRHi(lines, 3)
    /\ rhi_results[250].found /\ rhi_results[250].rhi = RowRHi(lines, 1)
    /\ ~rhi_results[200].found /\ ~rhi_results[300].found

-----------------------------------------------------------------------------
(* C9: the reported maximum is the earliest, in input order, of the rows   *)
(* with pressure in [200, 300] whose RHi is the greatest among those rows, *)
(* with that row's pressure, temperature and dewpoint.                     *)
InBand(t, i) == 200 <= t.rows[i].PRES.v /\ t.rows[i].PRES.v <= 300

C9_MaximumInBand ==
    (pc \in {"report", "done"}) =>
        /\ max_rhi_row.found
        /\ \E i \in DOMAIN lines.rows :
            /\ InBand(lines, i)
            /\ \A j \in DOMAIN lines.rows :
                  InBand(lines, j) =>
                    /\ RowRHi(lines, j) <= RowRHi(lines, i)
                    /\ (j < i => RowRHi(lines, j) < RowRHi(lines, i))
            /\ max_rhi_row.RHi = RowRHi(lines, i)
            /\ max_rhi_row.P = lines.rows[i].PRES.v
            /\ max_rhi_row.T = lines.rows[i].TEMP.v
            /\ max_rhi_row.Td = lines.rows[i].DWPT.v

\* A row outside the band with the greatest RHi of the table, and two rows in the
\* band, at different pressures, that share the greatest RHi of the band.
C9_Witness ==
    /\ pc = "done"
    /\ Len(lines.rows) = 3
    /\ lines.rows[1].PRES.v = 301 /\ lines.rows[2].PRES.v = 275
    /\ lines.rows[3].PRES.v = 250
    /\ RowRHi(lines, 1) > RowRHi(lines, 2)
    /\ RowRHi(lines, 2) = RowRHi(lines, 3)
    /\ max_rhi_row.P = 275

-----------------------------------------------------------------------------
(* C10: the suggested time has hour 0 or 12 and minute 0, is at most 6     *)
(* hours from the image time, and no 00:00 or 12:00 of any date is nearer; *)
(* typed at the observation prompt it is accepted, and the proximity check *)
(* that follows is ok and prints no warning.                               *)
C10_SuggestionAccepted ==
    (pc # "suggest") =>
        /\ suggested_dt.hour \in {0, 12} /\ suggested_dt.minute = 0
        /\ Distance(suggested_dt, img_dt) <= 360
        /\ \A k \in ((TotalMinutes(img_dt) \div 720) - 4) .. ((TotalMinutes(img_dt) \div 720) + 4) :
              Abs(k * 720 - TotalMinutes(img_dt)) >= Distance(suggested_dt, img_dt)
        /\ (obs_time_date = suggested_time) => (obs_dt = suggested_dt /\ PastObs)
        /\ (obs_time_date = suggested_time /\ PastProximity) =>
              (is_valid_time /\ out = {})

\* The suggestion for 06:00, six hours away, typed and accepted without a warning.
C10_Witness ==
    /\ pc = "location"
    /\ img_dt.hour = 6 /\ img_dt.minute = 0
    /\ obs_time_date = suggested_time
    /\ obs_dt = suggested_dt
    /\ Distance(obs_dt, img_dt) = 360
    /\ is_valid_time

====
